---- MODULE Spec2Model ----
(***************************************************************************)
(* Text normalisation and phonemisation pipeline of Matcha-TTS:            *)
(*   matcha/text/symbols.py   the symbol vocabulary                        *)
(*   matcha/text/cleaners.py  the phonemizer backend cache, the special    *)
(*                            vocal marker codec and the cleaner pipelines *)
(*   cleanup_espeak_temps.py  the sweep of the engine's temporary          *)
(*                            directories                                  *)
(* A Python str is a sequence of Unicode code points, one number per       *)
(* character; Python ids and indices count from 0, sequences here from 1.  *)
(***************************************************************************)
EXTENDS Integers, Sequences, FiniteSets, TLC

VARIABLES
    procs,               \* pids of the running Python processes
    global_phonemizers,  \* per process: the module-level dict key -> backend
    nextPid,             \* next pid the OS hands out
    nextId,              \* identity of the next EspeakBackend object constructed
    ret,                 \* the last get_or_create_phonemizer call and its return value
    log,                 \* every (pid, language, backend, cleaner_name) a request has returned
    attempts,            \* EspeakBackend constructor calls made by the last request
    raised,              \* the exception the last request raised, "" if it returned
    tmp_dirs,            \* the directories /tmp/tmp* that exist
    temp_dirs,           \* cleanup_espeak_temps: the directories it found and has yet to remove
    sweep_pc,            \* cleanup_espeak_temps: "idle" when it is not running
    pc,                  \* the operation that has run on text ("ready" before any)
    cleaners,            \* the cleaner name given to text_to_sequence
    text,                \* the input string of the operation
    out,                 \* the string the operation returned
    sequence,            \* the id sequence text_to_sequence returned
    table_order,         \* the order in which the rows of placeholder_map are visited
    error                \* the error the operation ended in, if any

poolVars == <<procs, global_phonemizers, nextPid, nextId, ret, log, attempts, raised, tmp_dirs, temp_dirs, sweep_pc>>
textVars == <<pc, cleaners, text, out, sequence, table_order, error>>
vars == <<procs, global_phonemizers, nextPid, nextId, ret, log, attempts, raised, tmp_dirs, temp_dirs, sweep_pc, pc, cleaners, text, out, sequence, table_order, error>>

(***************************************************************************)
(* matcha/text/symbols.py                                                  *)
(***************************************************************************)

\* _pad = "_"
_pad == <<95>>

\* _punctuation: ; : , . ! ? U+00A1 U+00BF U+2014 U+2026 " U+00AB U+00BB " " space U+27E8 U+27E9
_punctuation == <<
    59, 58, 44, 46, 33, 63, 161, 191, 8212, 8230, 34, 171, 187, 34, 34, 32, 10216, 10217 >>

\* _letters = "ABC...XYZabc...xyz"
_letters == <<
    65, 66, 67, 68, 69, 70, 71, 72, 73, 74, 75, 76, 77, 78, 79, 80, 81, 82, 83, 84, 85, 86, 87,
    88, 89, 90, 97, 98, 99, 100, 101, 102, 103, 104, 105, 106, 107, 108, 109, 110, 111, 112,
    113, 114, 115, 116, 117, 118, 119, 120, 121, 122 >>

\* _letters_ipa: the IPA letters, stress and length marks, and the small capitals
\* the marker symbols are spelt with
_letters_ipa == <<
    593, 592, 594, 230, 595, 665, 946, 596, 597, 231, 599, 598, 240, 676, 601, 600, 602, 603,
    604, 605, 606, 607, 644, 609, 608, 610, 667, 614, 615, 295, 613, 668, 616, 618, 669, 621,
    620, 619, 622, 671, 625, 623, 624, 331, 627, 626, 628, 248, 629, 632, 952, 339, 630, 664,
    633, 634, 638, 635, 640, 641, 637, 642, 643, 648, 679, 649, 650, 651, 11377, 652, 611, 612,
    653, 967, 654, 655, 657, 656, 658, 660, 673, 661, 674, 448, 449, 450, 451, 712, 716, 720,
    721, 700, 692, 688, 689, 690, 695, 736, 740, 734, 8595, 8593, 8594, 8599, 8600, 39, 809,
    39, 7547, 7424, 7428, 7431, 7435, 7437, 7439, 7448, 7452, 7457, 42800, 42801 >>

\* _special_vocals: U+27E8, the tag in small capitals, U+27E9
_special_vocals == <<
    <<10216, 7452, 668, 10217>>,  \* <UH>
    <<10216, 7452, 7437, 10217>>,  \* <UM>
    <<10216, 671, 7424, 7452, 610, 668, 10217>>,  \* <LAUGH>
    <<10216, 610, 618, 610, 610, 671, 7431, 10217>>,  \* <GIGGLE>
    <<10216, 7428, 668, 7452, 7428, 7435, 671, 7431, 10217>>,  \* <CHUCKLE>
    <<10216, 42801, 618, 610, 668, 10217>>,  \* <SIGH>
    <<10216, 7428, 7439, 7452, 610, 668, 10217>>,  \* <COUGH>
    <<10216, 42801, 628, 618, 42800, 42800, 671, 7431, 10217>>,  \* <SNIFFLE>
    <<10216, 610, 640, 7439, 7424, 628, 10217>>,  \* <GROAN>
    <<10216, 655, 7424, 7457, 628, 10217>>,  \* <YAWN>
    <<10216, 610, 7424, 42801, 7448, 10217>> >>  \* <GASP>

\* SPECIAL_VOCAL_MAP: (input tag, output symbol), in dict order
SPECIAL_VOCAL_MAP == <<
    <<<<60, 85, 72, 62>>, <<10216, 7452, 668, 10217>>>>,  \* <UH>
    <<<<60, 85, 77, 62>>, <<10216, 7452, 7437, 10217>>>>,  \* <UM>
    <<<<60, 76, 65, 85, 71, 72, 62>>, <<10216, 671, 7424, 7452, 610, 668, 10217>>>>,  \* <LAUGH>
    <<<<60, 71, 73, 71, 71, 76, 69, 62>>, <<10216, 610, 618, 610, 610, 671, 7431, 10217>>>>,  \* <GIGGLE>
    <<<<60, 67, 72, 85, 67, 75, 76, 69, 62>>, <<10216, 7428, 668, 7452, 7428, 7435, 671, 7431, 10217>>>>,  \* <CHUCKLE>
    <<<<60, 83, 73, 71, 72, 62>>, <<10216, 42801, 618, 610, 668, 10217>>>>,  \* <SIGH>
    <<<<60, 67, 79, 85, 71, 72, 62>>, <<10216, 7428, 7439, 7452, 610, 668, 10217>>>>,  \* <COUGH>
    <<<<60, 83, 78, 73, 70, 70, 76, 69, 62>>, <<10216, 42801, 628, 618, 42800, 42800, 671, 7431, 10217>>>>,  \* <SNIFFLE>
    <<<<60, 71, 82, 79, 65, 78, 62>>, <<10216, 610, 640, 7439, 7424, 628, 10217>>>>,  \* <GROAN>
    <<<<60, 89, 65, 87, 78, 62>>, <<10216, 655, 7424, 7457, 628, 10217>>>>,  \* <YAWN>
    <<<<60, 71, 65, 83, 80, 62>>, <<10216, 610, 7424, 42801, 7448, 10217>>>> >>  \* <GASP>

\* placeholder_map of handle_special_vocals: (tag, placeholder), in dict order
placeholder_map == <<
    <<<<60, 85, 72, 62>>, <<32, 126, 85, 72, 126, 32>>>>,  \* <UH> -> " ~UH~ "
    <<<<60, 85, 77, 62>>, <<32, 126, 85, 77, 126, 32>>>>,  \* <UM> -> " ~UM~ "
    <<<<60, 76, 65, 85, 71, 72, 62>>, <<32, 126, 76, 65, 85, 71, 72, 126, 32>>>>,  \* <LAUGH> -> " ~LAUGH~ "
    <<<<60, 71, 73, 71, 71, 76, 69, 62>>, <<32, 126, 71, 73, 71, 71, 76, 69, 126, 32>>>>,  \* <GIGGLE> -> " ~GIGGLE~ "
    <<<<60, 67, 72, 85, 67, 75, 76, 69, 62>>, <<32, 126, 67, 72, 85, 67, 75, 76, 69, 126, 32>>>>,  \* <CHUCKLE> -> " ~CHUCKLE~ "
    <<<<60, 83, 73, 71, 72, 62>>, <<32, 126, 83, 73, 71, 72, 126, 32>>>>,  \* <SIGH> -> " ~SIGH~ "
    <<<<60, 67, 79, 85, 71, 72, 62>>, <<32, 126, 67, 79, 85, 71, 72, 126, 32>>>>,  \* <COUGH> -> " ~COUGH~ "
    <<<<60, 83, 78, 73, 70, 70, 76, 69, 62>>, <<32, 126, 83, 78, 73, 70, 70, 76, 69, 126, 32>>>>,  \* <SNIFFLE> -> " ~SNIFFLE~ "
    <<<<60, 71, 82, 79, 65, 78, 62>>, <<32, 126, 71, 82, 79, 65, 78, 126, 32>>>>,  \* <GROAN> -> " ~GROAN~ "
    <<<<60, 89, 65, 87, 78, 62>>, <<32, 126, 89, 65, 87, 78, 126, 32>>>>,  \* <YAWN> -> " ~YAWN~ "
    <<<<60, 71, 65, 83, 80, 62>>, <<32, 126, 71, 65, 83, 80, 126, 32>>>> >>  \* <GASP> -> " ~GASP~ "

\* restoration_map of restore_special_symbols_from_placeholders: (espeak rendering
\* of the placeholder, output symbol), in dict order: 11 English patterns, then 11 Polish
restoration_map == <<
    <<<<116, 712, 618, 108, 100, 601, 32, 712, 652, 32, 116, 712, 618, 108, 100, 601>>,
      <<10216, 7452, 668, 10217>>>>,  \* English ~UH~
    <<<<116, 712, 618, 108, 100, 601, 32, 712, 652, 109, 32, 116, 712, 618, 108, 100, 601>>,
      <<10216, 7452, 7437, 10217>>>>,  \* English ~UM~
    <<<<116, 712, 618, 108, 100, 601, 32, 108, 712, 230, 102, 32, 116, 712, 618, 108, 100, 601>>,
      <<10216, 671, 7424, 7452, 610, 668, 10217>>>>,  \* English ~LAUGH~
    <<<<116, 712, 618, 108, 100, 601, 32, 609, 712, 618, 609, 601, 108, 32, 116, 712, 618, 108, 100, 601>>,
      <<10216, 610, 618, 610, 610, 671, 7431, 10217>>>>,  \* English ~GIGGLE~
    <<<<116, 712, 618, 108, 100, 601, 32, 116, 643, 712, 652, 107, 601, 108, 32, 116, 712, 618, 108, 100, 601>>,
      <<10216, 7428, 668, 7452, 7428, 7435, 671, 7431, 10217>>>>,  \* English ~CHUCKLE~
    <<<<116, 712, 618, 108, 100, 601, 32, 115, 712, 97, 618, 32, 116, 712, 618, 108, 100, 601>>,
      <<10216, 42801, 618, 610, 668, 10217>>>>,  \* English ~SIGH~
    <<<<116, 712, 618, 108, 100, 601, 32, 107, 712, 596, 102, 32, 116, 712, 618, 108, 100, 601>>,
      <<10216, 7428, 7439, 7452, 610, 668, 10217>>>>,  \* English ~COUGH~
    <<<<116, 712, 618, 108, 100, 601, 32, 115, 110, 712, 618, 102, 601, 108, 32, 116, 712, 618, 108, 100, 601>>,
      <<10216, 42801, 628, 618, 42800, 42800, 671, 7431, 10217>>>>,  \* English ~SNIFFLE~
    <<<<116, 712, 618, 108, 100, 601, 32, 609, 114, 712, 111, 650, 110, 32, 116, 712, 618, 108, 100, 601>>,
      <<10216, 610, 640, 7439, 7424, 628, 10217>>>>,  \* English ~GROAN~
    <<<<116, 712, 618, 108, 100, 601, 32, 106, 712, 596, 720, 110, 32, 116, 712, 618, 108, 100, 601>>,
      <<10216, 655, 7424, 7457, 628, 10217>>>>,  \* English ~YAWN~
    <<<<116, 712, 618, 108, 100, 601, 32, 609, 712, 230, 115, 112, 32, 116, 712, 618, 108, 100, 601>>,
      <<10216, 610, 7424, 42801, 7448, 10217>>>>,  \* English ~GASP~
    <<<<116, 712, 616, 108, 100, 97, 32, 712, 117, 32, 116, 712, 616, 108, 100, 97>>,
      <<10216, 7452, 668, 10217>>>>,  \* Polish ~UH~
    <<<<116, 712, 616, 108, 100, 97, 32, 712, 117, 109, 32, 116, 712, 616, 108, 100, 97>>,
      <<10216, 7452, 7437, 10217>>>>,  \* Polish ~UM~
    <<<<116, 712, 616, 108, 100, 97, 32, 108, 712, 97, 119, 107, 32, 116, 712, 616, 108, 100, 97>>,
      <<10216, 671, 7424, 7452, 610, 668, 10217>>>>,  \* Polish ~LAUGH~
    <<<<116, 712, 616, 108, 100, 97, 32, 609, 712, 105, 609, 603, 108, 32, 116, 712, 616, 108, 100, 97>>,
      <<10216, 610, 618, 610, 610, 671, 7431, 10217>>>>,  \* Polish ~GIGGLE~
    <<<<116, 712, 616, 108, 100, 97, 32, 116, 643, 712, 97, 107, 603, 108, 32, 116, 712, 616, 108, 100, 97>>,
      <<10216, 7428, 668, 7452, 7428, 7435, 671, 7431, 10217>>>>,  \* Polish ~CHUCKLE~
    <<<<116, 712, 616, 108, 100, 97, 32, 115, 97, 618, 32, 116, 712, 616, 108, 100, 97>>,
      <<10216, 42801, 618, 610, 668, 10217>>>>,  \* Polish ~SIGH~
    <<<<116, 712, 616, 108, 100, 97, 32, 107, 111, 102, 32, 116, 712, 616, 108, 100, 97>>,
      <<10216, 7428, 7439, 7452, 610, 668, 10217>>>>,  \* Polish ~COUGH~
    <<<<116, 712, 616, 108, 100, 97, 32, 115, 110, 616, 102, 603, 108, 32, 116, 712, 616, 108, 100, 97>>,
      <<10216, 42801, 628, 618, 42800, 42800, 671, 7431, 10217>>>>,  \* Polish ~SNIFFLE~
    <<<<116, 712, 616, 108, 100, 97, 32, 609, 114, 111, 110, 32, 116, 712, 616, 108, 100, 97>>,
      <<10216, 610, 640, 7439, 7424, 628, 10217>>>>,  \* Polish ~GROAN~
    <<<<116, 712, 616, 108, 100, 97, 32, 106, 97, 118, 110, 32, 116, 712, 616, 108, 100, 97>>,
      <<10216, 655, 7424, 7457, 628, 10217>>>>,  \* Polish ~YAWN~
    <<<<116, 712, 616, 108, 100, 97, 32, 609, 97, 115, 112, 32, 116, 712, 616, 108, 100, 97>>,
      <<10216, 610, 7424, 42801, 7448, 10217>>>> >>  \* Polish ~GASP~

\* _abbreviations: (abbreviation, replacement); each is the regular expression
\* \b<abbreviation>\. with re.IGNORECASE
_abbreviations == <<
    <<<<109, 114, 115>>, <<109, 105, 115, 101, 115, 115>>>>,  \* mrs. -> misess
    <<<<109, 114>>, <<109, 105, 115, 116, 101, 114>>>>,  \* mr. -> mister
    <<<<100, 114>>, <<100, 111, 99, 116, 111, 114>>>>,  \* dr. -> doctor
    <<<<115, 116>>, <<115, 97, 105, 110, 116>>>>,  \* st. -> saint
    <<<<99, 111>>, <<99, 111, 109, 112, 97, 110, 121>>>>,  \* co. -> company
    <<<<106, 114>>, <<106, 117, 110, 105, 111, 114>>>>,  \* jr. -> junior
    <<<<109, 97, 106>>, <<109, 97, 106, 111, 114>>>>,  \* maj. -> major
    <<<<103, 101, 110>>, <<103, 101, 110, 101, 114, 97, 108>>>>,  \* gen. -> general
    <<<<100, 114, 115>>, <<100, 111, 99, 116, 111, 114, 115>>>>,  \* drs. -> doctors
    <<<<114, 101, 118>>, <<114, 101, 118, 101, 114, 101, 110, 100>>>>,  \* rev. -> reverend
    <<<<108, 116>>, <<108, 105, 101, 117, 116, 101, 110, 97, 110, 116>>>>,  \* lt. -> lieutenant
    <<<<104, 111, 110>>, <<104, 111, 110, 111, 114, 97, 98, 108, 101>>>>,  \* hon. -> honorable
    <<<<115, 103, 116>>, <<115, 101, 114, 103, 101, 97, 110, 116>>>>,  \* sgt. -> sergeant
    <<<<99, 97, 112, 116>>, <<99, 97, 112, 116, 97, 105, 110>>>>,  \* capt. -> captain
    <<<<101, 115, 113>>, <<101, 115, 113, 117, 105, 114, 101>>>>,  \* esq. -> esquire
    <<<<108, 116, 100>>, <<108, 105, 109, 105, 116, 101, 100>>>>,  \* ltd. -> limited
    <<<<99, 111, 108>>, <<99, 111, 108, 111, 110, 101, 108>>>>,  \* col. -> colonel
    <<<<102, 116>>, <<102, 111, 114, 116>>>> >>  \* ft. -> fort

\* list(str): the characters of a string, each a string of length 1
list(s) == [i \in 1..Len(s) |-> <<s[i]>>]

\* Variant of symbols with the pad symbol appended instead of prepended.
symbols_pad_last ==
    list(_punctuation) \o list(_letters) \o list(_letters_ipa) \o _special_vocals \o <<_pad>>

\* Variant of symbols that ends with the input tags instead of the output symbols.
symbols_with_tags ==
    <<_pad>> \o list(_punctuation) \o list(_letters) \o list(_letters_ipa)
        \o [k \in 1..Len(SPECIAL_VOCAL_MAP) |-> SPECIAL_VOCAL_MAP[k][1]]

\* symbols = [_pad] + list(_punctuation) + list(_letters) + list(_letters_ipa) + _special_vocals
symbols == <<_pad>> \o list(_punctuation) \o list(_letters) \o list(_letters_ipa) \o _special_vocals

\* The ids of the vocabulary: the positions of symbols, from 0.
Ids == 0..(Len(symbols) - 1)

\* symbols[id]
SymbolOf(id) == symbols[id + 1]

\* symbols.index(s): the first position holding s
index(s) == CHOOSE i \in Ids : SymbolOf(i) = s /\ \A j \in 0..(i - 1) : SymbolOf(j) # s

\* SPACE_ID = symbols.index(" ")
SPACE_ID == index(<<32>>)

(***************************************************************************)
(* Python str operations used by matcha/text/cleaners.py                   *)
(***************************************************************************)

\* s[i-1 : i-1+len(old)] == old
MatchAt(s, old, i) ==
    /\ i + Len(old) - 1 <= Len(s)
    /\ \A k \in 1..Len(old) : s[i + k - 1] = old[k]

\* old in s
Contains(s, old) == \E i \in 1..(Len(s) - Len(old) + 1) : MatchAt(s, old, i)

\* The number of positions of s at which old starts.
Occurrences(s, old) == Cardinality({i \in 1..(Len(s) - Len(old) + 1) : MatchAt(s, old, i)})

\* The least element of a non-empty set of numbers.
Min(S) == CHOOSE m \in S : \A n \in S : m <= n

\* s from position i on, with the occurrences of old, found left to right
\* without overlap, each replaced by new.
RECURSIVE ReplaceFrom(_, _, _, _)
ReplaceFrom(s, old, new, i) ==
    LET found == {m \in i..(Len(s) - Len(old) + 1) : MatchAt(s, old, m)}
    IN IF found = {} THEN SubSeq(s, i, Len(s))
       ELSE SubSeq(s, i, Min(found) - 1) \o new \o ReplaceFrom(s, old, new, Min(found) + Len(old))

\* s.replace(old, new), old not empty
str_replace(s, old, new) == ReplaceFrom(s, old, new, 1)

\* str.lower() of one character: ASCII, Latin-1 and the Polish capital L with stroke.
LowerChar(c) ==
    IF c \in 65..90 THEN c + 32
    ELSE IF c \in (192..222) \ {215} THEN c + 32
    ELSE IF c = 321 THEN 322
    ELSE c

\* \s of a str pattern: the Unicode whitespace characters.
IsSpace(c) ==
    c \in (9..13) \cup (28..32) \cup {133, 160, 5760, 8232, 8233, 8239, 8287, 12288} \cup (8192..8202)

\* \w of a str pattern, on the Latin and IPA ranges: letters, digits, underscore.
IsWord(c) ==
    c \in (48..57) \cup (65..90) \cup (97..122) \cup {95} \cup ((192..687) \ {215, 247})

(***************************************************************************)
(* matcha/text/cleaners.py: the text transforms                            *)
(***************************************************************************)


\* lowercase(text): text.lower()
lowercase(t) == [i \in 1..Len(t) |-> LowerChar(t[i])]

\* remove_brackets(text): re.sub(r"[\[\]\(\)\{\}]", "", text)
remove_brackets(t) == SelectSeq(t, LAMBDA c : c \notin {91, 93, 40, 41, 123, 125})

\* Variant of collapse_whitespace with the pattern \s\s: every pair of adjacent
\* whitespace characters becomes one space, a single one is left as it is.
collapse_whitespace_pairs(t) ==
    LET RunStart(i) == CHOOSE j \in 1..i :
                           /\ j = 1 \/ ~IsSpace(t[j - 1])
                           /\ \A k \in j..i : IsSpace(t[k])
        indexed == [i \in 1..Len(t) |-> <<i, t[i]>>]
        kept == SelectSeq(indexed,
                          LAMBDA x : ~IsSpace(x[2]) \/ (x[1] - RunStart(x[1])) % 2 = 0)
    IN [k \in 1..Len(kept) |->
           IF IsSpace(kept[k][2]) /\ kept[k][1] < Len(t) /\ IsSpace(t[kept[k][1] + 1])
           THEN 32 ELSE kept[k][2]]

\* collapse_whitespace(text): re.sub(r"\s+", " ", text): of every run of
\* whitespace the first character is kept, as a space.
collapse_whitespace(t) ==
    LET indexed == [i \in 1..Len(t) |-> <<i, t[i]>>]
        kept == SelectSeq(indexed,
                          LAMBDA x : ~IsSpace(x[2]) \/ x[1] = 1 \/ ~IsSpace(t[x[1] - 1]))
    IN [k \in 1..Len(kept) |-> IF IsSpace(kept[k][2]) THEN 32 ELSE kept[k][2]]

\* The regular expression \b<abbr>\. with re.IGNORECASE matches at position i.
AbbreviationAt(t, abbr, i) ==
    /\ i + Len(abbr) <= Len(t)
    /\ \A k \in 1..Len(abbr) : LowerChar(t[i + k - 1]) = abbr[k]
    /\ t[i + Len(abbr)] = 46
    /\ i = 1 \/ ~IsWord(t[i - 1])

\* re.sub(regex, replacement, text) from position i on
RECURSIVE SubAbbreviationFrom(_, _, _, _)
SubAbbreviationFrom(t, abbr, replacement, i) ==
    LET found == {m \in i..(Len(t) - Len(abbr)) : AbbreviationAt(t, abbr, m)}
    IN IF found = {} THEN SubSeq(t, i, Len(t))
       ELSE SubSeq(t, i, Min(found) - 1) \o replacement
            \o SubAbbreviationFrom(t, abbr, replacement, Min(found) + Len(abbr) + 1)

RECURSIVE ExpandFrom(_, _)
ExpandFrom(t, k) ==
    IF k > Len(_abbreviations) \/ Len(t) = 0 THEN t
    ELSE ExpandFrom(SubAbbreviationFrom(t, _abbreviations[k][1], _abbreviations[k][2], 1), k + 1)

\* expand_abbreviations(text): re.sub(regex, replacement, text) for each pair in turn
expand_abbreviations(t) == ExpandFrom(t, 1)

\* Variant of ReplaceEach that returns inside the loop, after the first row.
ReplaceEachFirstRow(t, table, k) ==
    IF Len(table) = 0 THEN t ELSE str_replace(t, table[1][1], table[1][2])

\* for old, new in table.items(): text = text.replace(old, new)
RECURSIVE ReplaceEach(_, _, _)
ReplaceEach(t, table, k) ==
    IF k > Len(table) \/ Len(t) = 0 THEN t
    ELSE ReplaceEach(str_replace(t, table[k][1], table[k][2]), table, k + 1)

\* s.replace(old, new, 1): only the first occurrence is replaced.
str_replace_first(s, old, new) ==
    LET found == {m \in 1..(Len(s) - Len(old) + 1) : MatchAt(s, old, m)}
    IN IF found = {} THEN s
       ELSE SubSeq(s, 1, Min(found) - 1) \o new \o SubSeq(s, Min(found) + Len(old), Len(s))

RECURSIVE ReplaceFirstEach(_, _, _)
ReplaceFirstEach(t, table, k) ==
    IF k > Len(table) \/ Len(t) = 0 THEN t
    ELSE ReplaceFirstEach(str_replace_first(t, table[k][1], table[k][2]), table, k + 1)

\* Variant of handle_special_vocals that replaces only the first occurrence of
\* each tag (text.replace(original_token, placeholder, 1)).
handle_special_vocals_first(t) == ReplaceFirstEach(t, placeholder_map, 1)

\* The order in which a dict is iterated: the order of its rows in the source.
DictOrder == [k \in 1..Len(placeholder_map) |-> k]

\* handle_special_vocals(text)
handle_special_vocals(t) == ReplaceEach(t, placeholder_map, 1)

\* Variant of restore_special_symbols_from_placeholders that knows only the
\* English patterns of restoration_map.
restore_english_only(phonemes) == ReplaceEach(phonemes, SubSeq(restoration_map, 1, 11), 1)

\* Variant of restore_special_symbols_from_placeholders that matches loosely:
\* it strips the stress marks and collapses the whitespace of the phoneme
\* string and of the patterns before it compares them.
Loose(s) == collapse_whitespace(SelectSeq(s, LAMBDA c : c # 712))
restore_loosely(phonemes) ==
    ReplaceEach(Loose(phonemes),
                [row \in 1..Len(restoration_map) |->
                    <<Loose(restoration_map[row][1]), restoration_map[row][2]>>], 1)

\* restore_special_symbols_from_placeholders(phonemes)
restore_special_symbols_from_placeholders(phonemes) == ReplaceEach(phonemes, restoration_map, 1)

\* unidecode of one character: ASCII is kept; the Latin letters with diacritics
\* of the inputs map to their base letter.
UnidecodeChar(c) ==
    IF c < 128 THEN <<c>>
    ELSE IF c = 243 THEN <<111>>
    ELSE IF c = 211 THEN <<79>>
    ELSE IF c = 322 THEN <<108>>
    ELSE IF c = 321 THEN <<76>>
    ELSE << >>

\* "".join(parts[lo..hi])
RECURSIVE JoinRange(_, _, _)
JoinRange(parts, lo, hi) ==
    IF lo > hi THEN << >>
    ELSE IF lo = hi THEN parts[lo]
    ELSE JoinRange(parts, lo, (lo + hi) \div 2) \o JoinRange(parts, ((lo + hi) \div 2) + 1, hi)

\* "".join(parts)
Flatten(parts, k) == JoinRange(parts, k, Len(parts))

\* convert_to_ascii(text): unidecode(text)
convert_to_ascii(t) == Flatten([i \in 1..Len(t) |-> UnidecodeChar(t[i])], 1)

\* phonemes.replace("̃", U+02B7) of polish_cleaners
replace_combining_tilde(phonemes) == str_replace(phonemes, <<771>>, <<695>>)

(***************************************************************************)
(* The external engine, EspeakBackend.phonemize([text], strip=True)[0], as *)
(* the comments of restoration_map describe it: "~" is read as the word    *)
(* "tilde", so "~UM~" is read "tilde um tilde" and rendered word by word.  *)
(***************************************************************************)

\* The positions at which a word of the text starts, and the position of the
\* last character of the word that starts at i.
WordStarts(t) == {i \in 1..Len(t) : ~IsSpace(t[i]) /\ (i = 1 \/ IsSpace(t[i - 1]))}
WordEnd(t, i) == Min({j \in i..Len(t) : j = Len(t) \/ IsSpace(t[j + 1])})

\* The k-th smallest element of a set of numbers.
RECURSIVE Nth(_, _)
Nth(S, k) == IF k = 1 THEN Min(S) ELSE Nth(S \ {Min(S)}, k - 1)

\* The words of a text, in order: its maximal runs of non-whitespace characters.
Words(t) ==
    [k \in 1..Cardinality(WordStarts(t)) |->
        SubSeq(t, Nth(WordStarts(t), k), WordEnd(t, Nth(WordStarts(t), k)))]

\* The rows of restoration_map that hold the renderings of one language.
RenderingRows(language) ==
    IF language = "en-us" THEN 1..11
    ELSE IF language = "pl" THEN 12..22
    ELSE {}

\* The row of placeholder_map a row of restoration_map belongs to.
TagRow(row) == ((row - 1) % 11) + 1

\* "~um~": the placeholder as the phonemizer is given it, stripped and lowercased.
PlaceholderWord(k) ==
    lowercase(SubSeq(placeholder_map[k][2], 2, Len(placeholder_map[k][2]) - 1))

\* "um": the word between the tildes of the placeholder.
CoreWord(k) == SubSeq(PlaceholderWord(k), 2, Len(PlaceholderWord(k)) - 1)

\* The rendering of "tilde" in a listed rendering: its first word.
TildeRendering(row) == Words(restoration_map[row][1])[1]

\* The rendering of the word between the tildes in a listed rendering.
CoreRendering(row) ==
    LET r == restoration_map[row][1]
        n == Len(TildeRendering(row))
    IN SubSeq(r, n + 2, Len(r) - n - 1)

\* One word as the engine of the given language renders it: a placeholder as
\* restoration_map lists it, the word of a placeholder as it is rendered
\* inside the placeholder, any other word letter by letter as it is written.
PhonemizeWord(language, word) ==
    LET w == lowercase(word)
        whole == {row \in RenderingRows(language) : PlaceholderWord(TagRow(row)) = w}
        core == {row \in RenderingRows(language) : CoreWord(TagRow(row)) = w}
    IN IF whole # {} THEN restoration_map[CHOOSE row \in whole : TRUE][1]
       ELSE IF core # {} THEN CoreRendering(CHOOSE row \in core : TRUE)
       ELSE w

RECURSIVE JoinWords(_, _)
JoinWords(ws, k) ==
    IF k > Len(ws) THEN << >>
    ELSE IF k = Len(ws) THEN ws[k]
    ELSE ws[k] \o <<32>> \o JoinWords(ws, k + 1)

\* backend.phonemize([text], strip=True, njobs=1)[0]
phonemize(backend, t) ==
    LET ws == Words(t)
    IN JoinWords([k \in 1..Len(ws) |-> PhonemizeWord(backend.language, ws[k])], 1)

(***************************************************************************)
(* matcha/text/cleaners.py: the pipelines, given the backend they obtain   *)
(***************************************************************************)

\* basic_cleaners(text)
basic_cleaners(t) == collapse_whitespace(lowercase(t))

\* transliteration_cleaners(text)
transliteration_cleaners(t) == collapse_whitespace(lowercase(convert_to_ascii(t)))

\* english_cleaners2(text), phonemizer_backend the backend of ("en-us", "english_cleaners2")
english_cleaners2(phonemizer_backend, t) ==
    LET t1 == handle_special_vocals(t)
        t2 == convert_to_ascii(t1)
        t3 == lowercase(t2)
        t4 == expand_abbreviations(t3)
        p1 == phonemize(phonemizer_backend, t4)
        p2 == remove_brackets(p1)
        p3 == collapse_whitespace(p2)
    IN restore_special_symbols_from_placeholders(p3)

\* polish_cleaners(text), phonemizer_backend the backend of ("pl", "polish_cleaners")
polish_cleaners(phonemizer_backend, t) ==
    LET t1 == handle_special_vocals(t)
        t2 == lowercase(t1)
        p1 == phonemize(phonemizer_backend, t2)
        p2 == replace_combining_tilde(p1)
        p3 == remove_brackets(p2)
        p4 == collapse_whitespace(p3)
    IN restore_special_symbols_from_placeholders(p4)

\* hungarian_cleaners(text), phonemizer_backend the backend of ("hu", "hungarian_cleaners")
hungarian_cleaners(phonemizer_backend, t) ==
    LET t1 == lowercase(t)
        p1 == phonemize(phonemizer_backend, t1)
        p2 == remove_brackets(p1)
    IN collapse_whitespace(p2)

(***************************************************************************)
(* matcha/text/cleaners.py: the phonemizer backend cache                   *)
(***************************************************************************)

\* Bounds of the model.
MaxProcs == 2
MaxBackends == 4
MaxPieces == 3
MaxPermuted == 3
MaxRequests == 2

NoRet == [pid |-> 0, language |-> "", cleaner_name |-> "", backend |-> 0, handle_language |-> ""]

\* The language codes and cleaner names direct callers pass to get_or_create_phonemizer;
\* "xx" is not a language of the engine.
Languages == {"en-us", "pl", "xx"}
CleanerNames == {"english_cleaners2", "polish_cleaners"}

\* The languages the engine has a voice for, among those requested here: the
\* constructor of EspeakBackend raises RuntimeError for any other code.
SupportedLanguages == {"en-us", "pl", "hu"}

\* phonemizer.backend.EspeakBackend(language=..., preserve_punctuation=True,
\* with_stress=True, language_switch="remove-flags"): a new object, identity id.
EspeakBackend(id, language) ==
    [id |-> id, language |-> language, preserve_punctuation |-> TRUE,
     with_stress |-> TRUE, language_switch |-> "remove-flags"]

\* Variant of process_key without the pid: the bare cleaner name.
process_key_bare(cleaner_name, pid) == cleaner_name

\* The temporary directory the engine makes for a backend when it is
\* constructed, holding its copy of libespeak-ng.so.1.1.51, and the process
\* that constructed it.
TempDir(id, pid) == [backend |-> id, owner |-> pid, espeak |-> TRUE]

\* A directory /tmp/tmp* of some other program: no libespeak-ng file in it.
OtherTempDir == [backend |-> 0, owner |-> 0, espeak |-> FALSE]

\* process_key = f"{cleaner_name}_{os.getpid()}"
process_key(cleaner_name, pid) == cleaner_name \o "_" \o ToString(pid)

\* The dict a freshly imported cleaners module holds: the backend stored at
\* module load under the bare key "english_cleaners2".
ModuleLoad(id) == [k \in {"english_cleaners2"} |-> EspeakBackend(id, "en-us")]

\* dict[key] = value
DictSet(d, key, value) == [k \in DOMAIN d \cup {key} |-> IF k = key THEN value ELSE d[k]]

\* Variant of CacheAfter that, on a miss, stores the new backend under the key
\* of every cleaner name of the process.
CacheAfterEager(pid, language, cleaner_name) ==
    LET key == process_key(cleaner_name, pid)
        d == global_phonemizers[pid]
        keys == {process_key(c, pid) : c \in CleanerNames}
    IN IF key \notin DOMAIN d /\ language \in SupportedLanguages
       THEN [k \in DOMAIN d \cup keys |->
                IF k \in DOMAIN d THEN d[k] ELSE EspeakBackend(nextId, language)]
       ELSE d

\* Variant of CacheAfter without the membership test: every request stores a
\* backend under its key.
CacheAfterAlways(pid, language, cleaner_name) ==
    IF language \in SupportedLanguages
    THEN DictSet(global_phonemizers[pid], process_key(cleaner_name, pid),
                 EspeakBackend(nextId, language))
    ELSE global_phonemizers[pid]

\* Variant of CacheAfter that stores an entry for the key also when the
\* constructor raised.
CacheAfterStoresFailure(pid, language, cleaner_name) ==
    LET key == process_key(cleaner_name, pid)
        d == global_phonemizers[pid]
    IN IF key \notin DOMAIN d
       THEN DictSet(d, key, EspeakBackend(IF language \in SupportedLanguages THEN nextId ELSE 0,
                                          language))
       ELSE d

\* The dict of process pid after get_or_create_phonemizer(language, cleaner_name).
CacheAfter(pid, language, cleaner_name) ==
    LET key == process_key(cleaner_name, pid)
        d == global_phonemizers[pid]
    IN IF key \notin DOMAIN d /\ language \in SupportedLanguages
       THEN DictSet(d, key, EspeakBackend(nextId, language))
       ELSE d

\* The backend get_or_create_phonemizer(language, cleaner_name) returns in process pid.
BackendOf(pid, language, cleaner_name) ==
    CacheAfter(pid, language, cleaner_name)[process_key(cleaner_name, pid)]

\* get_or_create_phonemizer(language, cleaner_name) called in process pid: on
\* a miss the constructor is called once, inside the assignment to the dict;
\* when it raises, the assignment does not happen and the exception leaves
\* the function.
get_or_create_phonemizer(pid, language, cleaner_name) ==
    LET key == process_key(cleaner_name, pid)
        backend == BackendOf(pid, language, cleaner_name)
        miss == key \notin DOMAIN global_phonemizers[pid]
        raises == miss /\ language \notin SupportedLanguages
        constructed == miss /\ ~raises
    IN /\ pid \in procs
       /\ constructed => nextId < MaxBackends
       /\ ~raises => Cardinality(log \cup {<<pid, language, backend.id, cleaner_name>>}) <= MaxRequests
       /\ global_phonemizers' =
              [global_phonemizers EXCEPT ![pid] = CacheAfter(pid, language, cleaner_name)]
       /\ nextId' = IF constructed THEN nextId + 1 ELSE nextId
       /\ attempts' = IF miss THEN 1 ELSE 0
       /\ tmp_dirs' = IF constructed THEN tmp_dirs \cup {TempDir(nextId, pid)} ELSE tmp_dirs
       /\ IF raises
          THEN /\ raised' = "RuntimeError"
               /\ ret' = NoRet
               /\ log' = log
          ELSE /\ raised' = ""
               /\ ret' = [pid |-> pid, language |-> language, cleaner_name |-> cleaner_name,
                          backend |-> backend.id, handle_language |-> backend.language]
               /\ log' = log \cup {<<pid, language, backend.id, cleaner_name>>}
       /\ UNCHANGED <<procs, nextPid, temp_dirs, sweep_pc>>

\* A direct call of the module-level function with any arguments.
Request ==
    /\ \E pid \in procs, language \in Languages, cleaner_name \in CleanerNames :
           get_or_create_phonemizer(pid, language, cleaner_name)
    /\ UNCHANGED textVars

\* os.fork() (multiprocessing "fork" workers): the child starts with a copy of
\* the parent's memory, the module dict included, under a new pid.
Fork ==
    /\ \E parent \in procs :
           /\ nextPid <= MaxProcs
           /\ procs' = procs \cup {nextPid}
           /\ global_phonemizers' =
                  [global_phonemizers EXCEPT ![nextPid] = global_phonemizers[parent]]
           /\ nextPid' = nextPid + 1
    /\ UNCHANGED <<nextId, ret, log, attempts, raised, tmp_dirs, temp_dirs, sweep_pc>>
    /\ UNCHANGED textVars

\* A fresh interpreter (multiprocessing "spawn", or a new run) imports the
\* module: its dict holds only the module-load backend, a new object.
Spawn ==
    /\ nextPid <= MaxProcs
    /\ nextId < MaxBackends
    /\ procs' = procs \cup {nextPid}
    /\ global_phonemizers' = [global_phonemizers EXCEPT ![nextPid] = ModuleLoad(nextId)]
    /\ nextPid' = nextPid + 1
    /\ nextId' = nextId + 1
    /\ tmp_dirs' = tmp_dirs \cup {TempDir(nextId, nextPid)}
    /\ UNCHANGED <<ret, log, attempts, raised, temp_dirs, sweep_pc>>
    /\ UNCHANGED textVars

\* One process that has imported matcha.text.cleaners.
InitPool ==
    /\ procs = {1}
    /\ global_phonemizers = [p \in 1..(MaxProcs + 1) |-> IF p = 1 THEN ModuleLoad(1) ELSE << >>]
    /\ nextPid = 2
    /\ nextId = 2
    /\ ret = NoRet
    /\ log = {}
    /\ attempts = 0
    /\ raised = ""
    /\ tmp_dirs = {TempDir(1, 1), OtherTempDir}
    /\ temp_dirs = {}
    /\ sweep_pc = "idle"

\* No error: the operation has not failed.
NoError == [kind |-> "", cleaner |-> "", character |-> 0, position |-> 0]

Init ==
    /\ InitPool
    /\ pc = "idle"
    /\ cleaners = ""
    /\ text = << >>
    /\ out = << >>
    /\ sequence = << >>
    /\ table_order = DictOrder
    /\ error = NoError

Next == Request \/ Fork \/ Spawn

\* The backend cache under requests from forked and spawned worker processes.
Spec == Init /\ [][Next]_vars

(***************************************************************************)
(* matcha/text/__init__.py (not among the sources): text_to_sequence and   *)
(* sequence_to_text, as the specification describes the sequence encoder   *)
(***************************************************************************)

\* The positions of the vocabulary that hold the string s.
PositionsOf(s) == {i \in Ids : SymbolOf(i) = s}

\* symbol -> id over the vocabulary; where a string is listed more than once,
\* the first position, as symbols.index gives it.
_symbol_to_id ==
    [s \in {SymbolOf(i) : i \in Ids} |->
        CHOOSE i \in PositionsOf(s) : \A j \in PositionsOf(s) : i <= j]

\* id -> symbol
_id_to_symbol == [i \in Ids |-> SymbolOf(i)]

\* The positions of a string whose character has no id.
UnknownAt(s) == {i \in 1..Len(s) : <<s[i]>> \notin DOMAIN _symbol_to_id}

\* The ids of the characters of a cleaned text, one id per character.
cleaned_text_to_ids(s) == [i \in 1..Len(s) |-> _symbol_to_id[<<s[i]>>]]

\* Variant of sequence_to_text that reads the vocabulary one position early
\* (symbols[id - 1]).
sequence_to_text_off_by_one(ids) ==
    Flatten([k \in 1..Len(ids) |-> IF ids[k] = 0 THEN << >> ELSE _id_to_symbol[ids[k] - 1]], 1)

\* sequence_to_text(sequence): the symbols of the ids, concatenated
sequence_to_text(ids) == Flatten([k \in 1..Len(ids) |-> _id_to_symbol[ids[k]]], 1)

\* The cleaner names text_to_sequence accepts: the defined pipelines.
DefinedCleaners ==
    {"basic_cleaners", "transliteration_cleaners", "english_cleaners2",
     "polish_cleaners", "hungarian_cleaners"}

(***************************************************************************)
(* The inputs of the text operations: every concatenation of at most       *)
(* MaxPieces pieces.                                                       *)
(***************************************************************************)

Texts(pieces) ==
    {Flatten(s, 1) : s \in UNION {[1..n -> pieces] : n \in 0..MaxPieces}}

Tag(k) == placeholder_map[k][1]
Placeholder(k) == placeholder_map[k][2]
\* "~UM~": the placeholder without the spaces around it
PlaceholderToken(k) == SubSeq(Placeholder(k), 2, Len(Placeholder(k)) - 1)
Pattern(row) == restoration_map[row][1]
OutputSymbol(row) == restoration_map[row][2]

\* Raw text for handle_special_vocals: "<UH>", "<UM>", "<", "UM>", "<um>",
\* "~UM~", " ", "a".
RawPieces ==
    {Tag(1), Tag(2), <<60>>, SubSeq(Tag(2), 2, 4), lowercase(Tag(2)),
     PlaceholderToken(2), <<32>>, <<97>>}

\* Phoneme strings for restore_special_symbols_from_placeholders: the English
\* renderings of ~UH~ and ~UM~, the Polish rendering of ~UM~, the English
\* rendering of ~UM~ without its first stress mark and with a doubled space,
\* " ", and the end of the rendering of ~UH~ after its first word.
PhonemePieces ==
    {Pattern(1), Pattern(2), Pattern(13),
     SubSeq(Pattern(2), 1, 1) \o SubSeq(Pattern(2), 3, Len(Pattern(2))),
     SubSeq(Pattern(2), 1, 7) \o SubSeq(Pattern(2), 7, Len(Pattern(2))),
     <<32>>,
     SubSeq(Pattern(1), 7, Len(Pattern(1)))}

\* Raw text for the pipelines: "<UM>", "<LAUGH>", "uh", "a", " ", "Mr.", "(",
\* and o with acute.
PipelinePieces ==
    {Tag(2), Tag(3), <<117, 104>>, <<97>>, <<32>>, <<77, 114, 46>>, <<40>>, <<243>>}

\* Strings of vocabulary symbols: "_", the double quote (listed at ids 11, 14
\* and 15), " ", U+27E8, U+27E9, "a", the stress mark, and the marker symbols
\* of <UM> and <LAUGH>.
SymbolPieces ==
    {SymbolOf(0), SymbolOf(11), SymbolOf(14), SymbolOf(16), SymbolOf(17), SymbolOf(18),
     SymbolOf(45), SymbolOf(158), SymbolOf(192), SymbolOf(193)}

(***************************************************************************)
(* The marker codec on its own                                             *)
(***************************************************************************)

HandleSpecialVocals ==
    /\ pc = "ready"
    /\ pc' = "handle_special_vocals"
    /\ out' = handle_special_vocals(text)
    /\ UNCHANGED <<cleaners, text, sequence, error, table_order>>
    /\ UNCHANGED poolVars

\* The last step of english_cleaners2 and of polish_cleaners.
RestoreSpecialSymbols ==
    /\ pc = "ready"
    /\ pc' = "restore_special_symbols_from_placeholders"
    /\ \E name \in {"english_cleaners2", "polish_cleaners"} : cleaners' = name
    /\ out' = restore_special_symbols_from_placeholders(text)
    /\ UNCHANGED <<text, sequence, error, table_order>>
    /\ UNCHANGED poolVars

InitMarkers ==
    /\ InitPool
    /\ pc = "ready"
    /\ cleaners = ""
    /\ text \in Texts(RawPieces) \cup Texts(PhonemePieces)
    /\ out = << >>
    /\ sequence = << >>
    /\ table_order = DictOrder
    /\ error = NoError

NextMarkers == HandleSpecialVocals \/ RestoreSpecialSymbols

\* handle_special_vocals and restore_special_symbols_from_placeholders on
\* every input text.
SpecMarkers == InitMarkers /\ [][NextMarkers]_vars

(***************************************************************************)
(* text_to_sequence(text, [cleaners]) in process 1                         *)
(***************************************************************************)

\* After the cleaner: one id per character, or the error of the first
\* character that has no id.
Encode(name, clean) ==
    /\ cleaners' = name
    /\ out' = clean
    /\ IF UnknownAt(clean) = {}
       THEN /\ pc' = "done"
            /\ sequence' = cleaned_text_to_ids(clean)
            /\ error' = NoError
       ELSE LET i == CHOOSE i \in UnknownAt(clean) : \A j \in UnknownAt(clean) : i <= j
            IN /\ pc' = "failed"
               /\ sequence' = << >>
               /\ error' = [kind |-> "VocabularyError", cleaner |-> name,
                            character |-> clean[i], position |-> i - 1]
    /\ UNCHANGED <<text, table_order>>

RunBasic ==
    /\ pc = "ready"
    /\ Encode("basic_cleaners", basic_cleaners(text))
    /\ UNCHANGED poolVars

RunTransliteration ==
    /\ pc = "ready"
    /\ Encode("transliteration_cleaners", transliteration_cleaners(text))
    /\ UNCHANGED poolVars

RunEnglish ==
    /\ pc = "ready"
    /\ get_or_create_phonemizer(1, "en-us", "english_cleaners2")
    /\ Encode("english_cleaners2",
              english_cleaners2(BackendOf(1, "en-us", "english_cleaners2"), text))

RunPolish ==
    /\ pc = "ready"
    /\ get_or_create_phonemizer(1, "pl", "polish_cleaners")
    /\ Encode("polish_cleaners",
              polish_cleaners(BackendOf(1, "pl", "polish_cleaners"), text))

RunHungarian ==
    /\ pc = "ready"
    /\ get_or_create_phonemizer(1, "hu", "hungarian_cleaners")
    /\ Encode("hungarian_cleaners",
              hungarian_cleaners(BackendOf(1, "hu", "hungarian_cleaners"), text))

\* Variant of RejectUnknown that falls back to basic_cleaners for a name it
\* does not know.
RejectUnknownFallsBack ==
    /\ pc = "ready"
    /\ cleaners \notin DefinedCleaners
    /\ out' = basic_cleaners(text)
    /\ pc' = "done"
    /\ sequence' = IF UnknownAt(out') = {} THEN cleaned_text_to_ids(out') ELSE << >>
    /\ UNCHANGED <<cleaners, text, error, table_order>>
    /\ UNCHANGED poolVars

\* A cleaner name that is not a defined pipeline: a configuration error that
\* names it; no transform runs.
RejectUnknown ==
    /\ pc = "ready"
    /\ cleaners \notin DefinedCleaners
    /\ pc' = "failed"
    /\ error' = [kind |-> "ConfigurationError", cleaner |-> cleaners,
                 character |-> 0, position |-> 0]
    /\ UNCHANGED <<cleaners, text, out, sequence, table_order>>
    /\ UNCHANGED poolVars

\* text_to_sequence(text, [cleaners]): the cleaner is selected by its name.
text_to_sequence ==
    \/ cleaners = "basic_cleaners" /\ RunBasic
    \/ cleaners = "transliteration_cleaners" /\ RunTransliteration
    \/ cleaners = "english_cleaners2" /\ RunEnglish
    \/ cleaners = "polish_cleaners" /\ RunPolish
    \/ cleaners = "hungarian_cleaners" /\ RunHungarian
    \/ RejectUnknown

InitPipeline ==
    /\ InitPool
    /\ pc = "ready"
    /\ cleaners \in DefinedCleaners \cup {"english_cleaners", "ipa_simplifier", ""}
    /\ text \in Texts(PipelinePieces)
    /\ out = << >>
    /\ sequence = << >>
    /\ table_order = DictOrder
    /\ error = NoError

NextPipeline == text_to_sequence

\* One request to encode a text with a named cleaner.
SpecPipeline == InitPipeline /\ [][NextPipeline]_vars

(***************************************************************************)
(* The vocabulary: encoding a string of symbols and decoding it again      *)
(***************************************************************************)

EncodeSymbols ==
    /\ pc = "ready"
    /\ pc' = "encoded"
    /\ sequence' = cleaned_text_to_ids(text)
    /\ UNCHANGED <<cleaners, text, out, error, table_order>>
    /\ UNCHANGED poolVars

DecodeSequence ==
    /\ pc = "encoded"
    /\ pc' = "decoded"
    /\ out' = sequence_to_text(sequence)
    /\ UNCHANGED <<cleaners, text, sequence, error, table_order>>
    /\ UNCHANGED poolVars

InitVocab ==
    /\ InitPool
    /\ pc = "ready"
    /\ cleaners = ""
    /\ text \in Texts(SymbolPieces)
    /\ out = << >>
    /\ sequence = << >>
    /\ table_order = DictOrder
    /\ error = NoError

NextVocab == EncodeSymbols \/ DecodeSequence

\* Strings composed of vocabulary symbols, encoded and decoded.
SpecVocab == InitVocab /\ [][NextVocab]_vars


(***************************************************************************)
(* The cleanup steps collapse_whitespace and remove_brackets, run once and *)
(* run again on their own result                                           *)
(***************************************************************************)

\* Text for the cleanup steps: " ", tab, newline, no-break space, "(", ")",
\* "[", "a".
CleanupPieces == {<<32>>, <<9>>, <<10>>, <<160>>, <<40>>, <<41>>, <<91>>, <<97>>}

CollapseWhitespace ==
    /\ pc = "ready"
    /\ pc' = "collapse_whitespace"
    /\ out' = collapse_whitespace(text)
    /\ UNCHANGED <<cleaners, text, sequence, error, table_order>>
    /\ UNCHANGED poolVars

CollapseWhitespaceAgain ==
    /\ pc = "collapse_whitespace"
    /\ pc' = "collapse_whitespace_twice"
    /\ out' = collapse_whitespace(out)
    /\ UNCHANGED <<cleaners, text, sequence, error, table_order>>
    /\ UNCHANGED poolVars

RemoveBrackets ==
    /\ pc = "ready"
    /\ pc' = "remove_brackets"
    /\ out' = remove_brackets(text)
    /\ UNCHANGED <<cleaners, text, sequence, error, table_order>>
    /\ UNCHANGED poolVars

RemoveBracketsAgain ==
    /\ pc = "remove_brackets"
    /\ pc' = "remove_brackets_twice"
    /\ out' = remove_brackets(out)
    /\ UNCHANGED <<cleaners, text, sequence, error, table_order>>
    /\ UNCHANGED poolVars

InitCleanup ==
    /\ InitPool
    /\ pc = "ready"
    /\ cleaners = ""
    /\ text \in Texts(CleanupPieces)
    /\ out = << >>
    /\ sequence = << >>
    /\ table_order = DictOrder
    /\ error = NoError

NextCleanup ==
    CollapseWhitespace \/ CollapseWhitespaceAgain \/ RemoveBrackets \/ RemoveBracketsAgain

\* collapse_whitespace and remove_brackets applied once and twice to every text.
SpecCleanup == InitCleanup /\ [][NextCleanup]_vars

(***************************************************************************)
(* english_cleaners2 and polish_cleaners statement by statement            *)
(***************************************************************************)

\* Variant of english_steps that folds the case before it handles the tags.
english_steps_lowercase_first ==
    <<"lowercase", "convert_to_ascii", "handle_special_vocals", "expand_abbreviations",
      "phonemize", "remove_brackets", "collapse_whitespace",
      "restore_special_symbols_from_placeholders">>

\* The statements of english_cleaners2, in the order of its body.
english_steps ==
    <<"handle_special_vocals", "convert_to_ascii", "lowercase", "expand_abbreviations",
      "phonemize", "remove_brackets", "collapse_whitespace",
      "restore_special_symbols_from_placeholders">>

\* The statements of polish_cleaners, in the order of its body.
polish_steps ==
    <<"handle_special_vocals", "lowercase", "phonemize", "replace_combining_tilde",
      "remove_brackets", "collapse_whitespace", "restore_special_symbols_from_placeholders">>

\* The statements and the language of the pipeline with the given name.
StepsOf(name) == IF name = "english_cleaners2" THEN english_steps ELSE polish_steps
LanguageOf(name) == IF name = "english_cleaners2" THEN "en-us" ELSE "pl"

\* The value one statement assigns, given the value s of text / phonemes before it.
ApplyStep(step, phonemizer_backend, s) ==
    CASE step = "handle_special_vocals" -> handle_special_vocals(s)
      [] step = "convert_to_ascii" -> convert_to_ascii(s)
      [] step = "lowercase" -> lowercase(s)
      [] step = "expand_abbreviations" -> expand_abbreviations(s)
      [] step = "phonemize" -> phonemize(phonemizer_backend, s)
      [] step = "replace_combining_tilde" -> replace_combining_tilde(s)
      [] step = "remove_brackets" -> remove_brackets(s)
      [] step = "collapse_whitespace" -> collapse_whitespace(s)
      [] step = "restore_special_symbols_from_placeholders" ->
             restore_special_symbols_from_placeholders(s)

\* The next statement of the running pipeline: the first one on the text, each
\* later one on the value the statement before it assigned. The phonemize
\* statement comes with the request for the backend that precedes it.
RunStep ==
    \E k \in 1..Len(StepsOf(cleaners)) :
        LET steps == StepsOf(cleaners)
            s == IF k = 1 THEN text ELSE out
        IN /\ pc = (IF k = 1 THEN "ready" ELSE steps[k - 1])
           /\ pc' = steps[k]
           /\ IF steps[k] = "phonemize"
              THEN /\ get_or_create_phonemizer(1, LanguageOf(cleaners), cleaners)
                   /\ out' = ApplyStep(steps[k], BackendOf(1, LanguageOf(cleaners), cleaners), s)
              ELSE /\ out' = ApplyStep(steps[k], NoRet, s)
                   /\ UNCHANGED poolVars
           /\ UNCHANGED <<cleaners, text, sequence, error, table_order>>

InitSteps ==
    /\ InitPool
    /\ pc = "ready"
    /\ cleaners \in {"english_cleaners2", "polish_cleaners"}
    /\ text \in Texts(PipelinePieces)
    /\ out = << >>
    /\ sequence = << >>
    /\ table_order = DictOrder
    /\ error = NoError

NextSteps == RunStep

\* One run of english_cleaners2 or polish_cleaners, one statement per step.
SpecSteps == InitSteps /\ [][NextSteps]_vars

(***************************************************************************)
(* handle_special_vocals with the rows of placeholder_map visited in       *)
(* another order                                                           *)
(***************************************************************************)

\* The orders of the rows tried: every permutation of the first MaxPermuted
\* rows with the other rows in place, the reversed table, and the table
\* rotated by one row.
TableOrders ==
    LET n == Len(placeholder_map)
        perms == {f \in [1..MaxPermuted -> 1..MaxPermuted] :
                     \A i, j \in 1..MaxPermuted : i # j => f[i] # f[j]}
    IN {[k \in 1..n |-> IF k <= MaxPermuted THEN f[k] ELSE k] : f \in perms}
         \cup {[k \in 1..n |-> n + 1 - k], [k \in 1..n |-> (k % n) + 1]}

\* Raw text with the tags <UH>, <UM>, <LAUGH>, <GASP>, "<", "UM>" and " ".
OrderPieces == {Tag(1), Tag(2), Tag(3), Tag(11), <<60>>, SubSeq(Tag(2), 2, 4), <<32>>}

\* handle_special_vocals with its loop visiting the rows in table_order.
HandleSpecialVocalsInOrder ==
    /\ pc = "ready"
    /\ pc' = "handle_special_vocals_in_order"
    /\ out' = ReplaceEach(text,
                          [k \in 1..Len(placeholder_map) |-> placeholder_map[table_order[k]]], 1)
    /\ UNCHANGED <<cleaners, text, sequence, error, table_order>>
    /\ UNCHANGED poolVars

InitOrder ==
    /\ InitPool
    /\ pc = "ready"
    /\ cleaners = ""
    /\ text \in Texts(OrderPieces)
    /\ out = << >>
    /\ sequence = << >>
    /\ table_order \in TableOrders
    /\ error = NoError

NextOrder == HandleSpecialVocalsInOrder

\* handle_special_vocals on every text with every order of the table tried.
SpecOrder == InitOrder /\ [][NextOrder]_vars

(***************************************************************************)
(* cleanup_espeak_temps.py, run beside the worker processes                *)
(***************************************************************************)

\* english_cleaners2 or polish_cleaners requests its backend in a running process.
PipelineRequest ==
    /\ \E pid \in procs :
           \/ get_or_create_phonemizer(pid, "en-us", "english_cleaners2")
           \/ get_or_create_phonemizer(pid, "pl", "polish_cleaners")
    /\ UNCHANGED textVars

\* A process exits: the engine removes the temporary directories of the
\* backends the process constructed.
Exit ==
    /\ \E pid \in procs :
           /\ procs' = procs \ {pid}
           /\ global_phonemizers' = [global_phonemizers EXCEPT ![pid] = << >>]
           /\ tmp_dirs' = {d \in tmp_dirs : d.owner # pid}
    /\ UNCHANGED <<nextPid, nextId, ret, log, attempts, raised, temp_dirs, sweep_pc>>
    /\ UNCHANGED textVars

\* A process is killed or crashes: its temporary directories stay behind.
Crash ==
    /\ \E pid \in procs :
           /\ procs' = procs \ {pid}
           /\ global_phonemizers' = [global_phonemizers EXCEPT ![pid] = << >>]
    /\ UNCHANGED <<nextPid, nextId, ret, log, attempts, raised, tmp_dirs, temp_dirs, sweep_pc>>
    /\ UNCHANGED textVars

\* cleanup_espeak_temps, first loop: every directory /tmp/tmp* that holds
\* libespeak-ng.so.1.1.51 is appended to temp_dirs.
SweepScan ==
    /\ sweep_pc = "idle"
    /\ sweep_pc' = "removing"
    /\ temp_dirs' = {d \in tmp_dirs : d.espeak}
    /\ UNCHANGED <<procs, global_phonemizers, nextPid, nextId, ret, log, attempts, raised, tmp_dirs>>
    /\ UNCHANGED textVars

\* cleanup_espeak_temps, second loop: shutil.rmtree of one directory of
\* temp_dirs; a directory that is gone by now raises, which is caught.
SweepRemove ==
    /\ sweep_pc = "removing"
    /\ \E d \in temp_dirs :
           /\ tmp_dirs' = tmp_dirs \ {d}
           /\ temp_dirs' = temp_dirs \ {d}
    /\ UNCHANGED <<procs, global_phonemizers, nextPid, nextId, ret, log, attempts, raised, sweep_pc>>
    /\ UNCHANGED textVars

\* cleanup_espeak_temps, after the second loop: it counts what is left and returns.
SweepDone ==
    /\ sweep_pc = "removing"
    /\ temp_dirs = {}
    /\ sweep_pc' = "idle"
    /\ UNCHANGED <<procs, global_phonemizers, nextPid, nextId, ret, log, attempts, raised, tmp_dirs, temp_dirs>>
    /\ UNCHANGED textVars

NextSweep ==
    PipelineRequest \/ Fork \/ Spawn \/ Exit \/ Crash \/ SweepScan \/ SweepRemove \/ SweepDone

\* Worker processes that come, request their backends and go, with the sweep
\* run at any time beside them.
SpecSweep == Init /\ [][NextSweep]_vars
(***************************************************************************)
(* Properties                                                              *)
(***************************************************************************)

\* The ids of the marker symbols: the last entries of symbols.
MarkerId(m) == Len(symbols) - Len(_special_vocals) + m - 1

\* The number of positions of an id sequence that hold id.
CountId(ids, id) == Cardinality({k \in 1..Len(ids) : ids[k] = id})

\* Some restoration pattern of the given rows occurs in s.
AnyPattern(s, rows) == \E row \in rows : Contains(s, Pattern(row))

Restored == pc = "restore_special_symbols_from_placeholders"
Encoded == pc = "handle_special_vocals"

\* C1: once the vocabulary is built, no two distinct positions of it hold the
\* same symbol string, so that symbol -> id and id -> symbol are inverse on
\* every id.
C1_SymbolsUnique ==
    pc = "ready" =>
        /\ \A i, j \in Ids : i # j => SymbolOf(i) # SymbolOf(j)
        /\ \A i \in Ids : _symbol_to_id[_id_to_symbol[i]] = i

\* C2: two distinct processes that request the same language never receive
\* the same backend, and two requests of one process for the same language
\* receive the same backend.
C2_BackendIsolation ==
    \A a, b \in log :
        /\ (a[1] # b[1] /\ a[2] = b[2]) => a[3] # b[3]
        /\ (a[1] = b[1] /\ a[2] = b[2]) => a[3] = b[3]

\* The part of C2 about distinct processes: a backend returned to one process
\* is never returned to another.
C2_DistinctProcessesDistinctBackends ==
    \A a, b \in log : a[1] # b[1] => a[3] # b[3]

\* C3: the backend a request returns was constructed for the language the
\* request names, with punctuation preserved, stress marked and the
\* language-switch flags removed.
C3_BackendOfRequestedLanguage ==
    ret # NoRet =>
        /\ ret.handle_language = ret.language
        /\ \A key \in DOMAIN global_phonemizers[ret.pid] :
               LET b == global_phonemizers[ret.pid][key]
               IN b.id = ret.backend =>
                      b.preserve_punctuation /\ b.with_stress /\ b.language_switch = "remove-flags"

\* C4: through english_cleaners2 and polish_cleaners, an input with n >= 1
\* occurrences of a tag yields exactly n occurrences of the tag's output
\* symbol, no tag text and no remnant of a placeholder.
C4_MarkerRoundTrip ==
    (pc # "ready" /\ cleaners \in {"english_cleaners2", "polish_cleaners"}) =>
        \A k \in 1..Len(placeholder_map) :
            Occurrences(text, Tag(k)) >= 1 =>
                /\ Occurrences(out, SPECIAL_VOCAL_MAP[k][2]) = Occurrences(text, Tag(k))
                /\ ~Contains(out, Tag(k))
                /\ ~Contains(out, <<126>>)
                /\ \A row \in 1..Len(restoration_map) : ~Contains(out, TildeRendering(row))

\* C5 as stated: decoding in one language's pipeline leaves the renderings of
\* the other language unchanged.
C5_DecodePerLanguage ==
    /\ (Restored /\ cleaners = "english_cleaners2" /\ ~AnyPattern(text, 1..11)) => out = text
    /\ (Restored /\ cleaners = "polish_cleaners" /\ ~AnyPattern(text, 12..22)) => out = text

\* C5 as amended: decoding substitutes the patterns of every language in
\* whichever pipeline it runs: after it no English and no Polish pattern is
\* left in the string, and a string that held a pattern holds an output symbol.
C5_DecodeEveryLanguage ==
    Restored =>
        /\ ~AnyPattern(out, 1..Len(restoration_map))
        /\ AnyPattern(text, 1..Len(restoration_map)) =>
               \E row \in 1..Len(restoration_map) : Contains(out, OutputSymbol(row))

\* The Polish rendering of ~UM~ restored at the end of the English pipeline.
C5_Witness ==
    /\ Restored
    /\ cleaners = "english_cleaners2"
    /\ Contains(text, Pattern(13))
    /\ ~AnyPattern(text, 1..11)
    /\ Contains(out, OutputSymbol(13))

\* C6: a phoneme string in which no restoration pattern occurs verbatim is
\* returned unchanged, without an error.
C6_RestorationMissIsSoft ==
    Restored =>
        /\ error = NoError
        /\ ~AnyPattern(text, 1..Len(restoration_map)) => out = text

\* A rendering of ~UM~ that misses a stress mark or has a doubled space, left
\* as it is.
C6_Witness ==
    /\ Restored
    /\ \/ Contains(text, SubSeq(Pattern(2), 1, 1) \o SubSeq(Pattern(2), 3, Len(Pattern(2))))
       \/ Contains(text, SubSeq(Pattern(2), 1, 7) \o SubSeq(Pattern(2), 7, Len(Pattern(2))))
    /\ ~AnyPattern(text, 1..Len(restoration_map))
    /\ out = text

\* C7: in the id sequence of a phoneme string every occurrence of a marker's
\* output symbol is one id, the id of the marker's entry in symbols.
C7_MarkerIsOneId ==
    pc = "encoded" =>
        \A m \in 1..Len(_special_vocals) :
            CountId(sequence, MarkerId(m)) = Occurrences(text, _special_vocals[m])

\* C8 as stated: after handle_special_vocals no tag is left, the placeholders
\* of a tag are as many as its occurrences in the input, and a text without
\* a tag is returned unchanged.
C8_EncodeMarkersCounts ==
    Encoded =>
        /\ \A k \in 1..Len(placeholder_map) :
               /\ ~Contains(out, Tag(k))
               /\ Occurrences(out, Placeholder(k)) = Occurrences(text, Tag(k))
        /\ (\A k \in 1..Len(placeholder_map) : ~Contains(text, Tag(k))) => out = text

\* C8 as amended: after handle_special_vocals no tag is left, the placeholder
\* tokens ~TAG~ of a tag are as many as its occurrences in the input plus the
\* tokens ~TAG~ the input already held, and a text without a tag is returned
\* unchanged.
C8_EncodeMarkers ==
    Encoded =>
        /\ \A k \in 1..Len(placeholder_map) :
               /\ ~Contains(out, Tag(k))
               /\ Occurrences(out, PlaceholderToken(k)) =
                      Occurrences(text, Tag(k)) + Occurrences(text, PlaceholderToken(k))
        /\ (\A k \in 1..Len(placeholder_map) : ~Contains(text, Tag(k))) => out = text

\* Two occurrences of <UM> replaced in a text that already held "~UM~".
C8_Witness ==
    /\ Encoded
    /\ Occurrences(text, Tag(2)) = 2
    /\ Occurrences(text, PlaceholderToken(2)) = 1
    /\ Occurrences(out, PlaceholderToken(2)) = 3

C10_DecodeEncode == pc = "decoded" => out = text

\* A string with a marker symbol and the double quote, decoded to itself.
C10_Witness ==
    /\ pc = "decoded"
    /\ Contains(text, SymbolOf(192))
    /\ Contains(text, SymbolOf(11))
    /\ out = text


\* C11: the vocabulary is the pad symbol, the punctuation, the Latin letters,
\* the IPA letters and the marker symbols, in this order; the pad symbol has
\* id 0 and SPACE_ID is the id of the space, also as the encoder assigns them.
C11_VocabularyOrder ==
    /\ SymbolOf(0) = <<95>>
    /\ SymbolOf(SPACE_ID) = <<32>>
    /\ \A i \in 1..Len(_punctuation) : SymbolOf(i) = <<_punctuation[i]>>
    /\ \A i \in 1..Len(_letters) : SymbolOf(Len(_punctuation) + i) = <<_letters[i]>>
    /\ \A i \in 1..Len(_letters_ipa) :
           SymbolOf(Len(_punctuation) + Len(_letters) + i) = <<_letters_ipa[i]>>
    /\ \A m \in 1..Len(_special_vocals) : SymbolOf(MarkerId(m)) = _special_vocals[m]
    /\ Len(symbols) = 1 + Len(_punctuation) + Len(_letters) + Len(_letters_ipa) + Len(_special_vocals)
    /\ pc = "encoded" =>
           \A k \in 1..Len(text) :
               /\ text[k] = 95 => sequence[k] = 0
               /\ text[k] = 32 => sequence[k] = SPACE_ID

\* A string with the pad symbol and a space, encoded.
C11_Witness ==
    /\ pc = "encoded"
    /\ Contains(text, <<95>>)
    /\ Contains(text, <<32>>)
    /\ CountId(sequence, 0) >= 1
    /\ CountId(sequence, SPACE_ID) >= 1

\* C12: every output symbol SPECIAL_VOCAL_MAP assigns to a tag is an entry of
\* symbols, so it has an id.
C12_OutputSymbolsInVocabulary ==
    pc = "ready" =>
        /\ Len(SPECIAL_VOCAL_MAP) = 11
        /\ \A k \in 1..Len(SPECIAL_VOCAL_MAP) :
               \E i \in Ids : SymbolOf(i) = SPECIAL_VOCAL_MAP[k][2]

\* A text that holds the output symbol of <UM>, about to be encoded.
C12_Witness ==
    /\ pc = "ready"
    /\ Contains(text, SPECIAL_VOCAL_MAP[2][2])
    /\ \E i \in Ids : SymbolOf(i) = SPECIAL_VOCAL_MAP[2][2]

\* C13: collapse_whitespace applied to its own result gives that result
\* again, and so does remove_brackets.
C13_CleanupIdempotent ==
    /\ pc = "collapse_whitespace_twice" => out = collapse_whitespace(text)
    /\ pc = "remove_brackets_twice" => out = remove_brackets(text)

\* Three whitespace characters in a row collapsed twice, and a text with
\* brackets stripped twice.
C13_Witness ==
    \/ /\ pc = "collapse_whitespace_twice"
       /\ Len(text) = 3
       /\ \A k \in 1..3 : IsSpace(text[k])
       /\ out = <<32>>
    \/ /\ pc = "remove_brackets_twice"
       /\ Contains(text, <<40>>)
       /\ Contains(text, <<97>>)
       /\ ~Contains(out, <<40>>)

\* C14 as stated: a process's cache holds a backend only under keys for which
\* a request has been made.
C14_CreatedOnRequestOnly ==
    \A p \in procs : \A key \in DOMAIN global_phonemizers[p] :
        \E e \in log : key = process_key(e[4], e[1])

\* C14 as amended: apart from the backend the module constructs when it is
\* loaded, under the key "english_cleaners2", a process's cache holds a
\* backend only under keys for which a request has been made, and every
\* process holds the module-load backend before any request.
C14_CreatedOnRequestOrAtLoad ==
    \A p \in procs :
        /\ "english_cleaners2" \in DOMAIN global_phonemizers[p]
        /\ \A key \in DOMAIN global_phonemizers[p] :
               \/ key = "english_cleaners2"
               \/ \E e \in log : key = process_key(e[4], e[1])

\* A process that holds the module-load backend and one backend it requested,
\* and no backend under the key it has not requested.
C14_Witness ==
    \E p \in procs :
        /\ Cardinality(DOMAIN global_phonemizers[p]) = 2
        /\ \E e \in log : e[1] = p /\ process_key(e[4], p) \in DOMAIN global_phonemizers[p]
        /\ \E c \in CleanerNames : process_key(c, p) \notin DOMAIN global_phonemizers[p]

\* A step in which a request returned.
Returned ==
    /\ procs' = procs
    /\ ret' # NoRet
    /\ <<ret, log, attempts, raised>>' # <<ret, log, attempts, raised>>

\* C15: no step removes or replaces an entry of a cache; a request whose key
\* is cached constructs nothing and leaves the cache as it was; a request
\* whose key is not cached constructs one backend and adds exactly its key.
C15_CacheStep ==
    /\ \A p \in procs \cap procs' : \A key \in DOMAIN global_phonemizers[p] :
           /\ key \in DOMAIN global_phonemizers'[p]
           /\ global_phonemizers'[p][key] = global_phonemizers[p][key]
    /\ Returned =>
           LET p == ret'.pid
               key == process_key(ret'.cleaner_name, p)
           IN IF key \in DOMAIN global_phonemizers[p]
              THEN /\ global_phonemizers' = global_phonemizers
                   /\ nextId' = nextId
                   /\ attempts' = 0
              ELSE /\ DOMAIN global_phonemizers'[p] = DOMAIN global_phonemizers[p] \cup {key}
                   /\ \A o \in procs \ {p} : global_phonemizers'[o] = global_phonemizers[o]
                   /\ nextId' = nextId + 1
                   /\ attempts' = 1

C15_CacheGrowth == [][C15_CacheStep]_vars

\* Two requests of one process with the same key and different languages that
\* returned the same backend: the second found the key cached.
C15_Witness ==
    \E a, b \in log : a[1] = b[1] /\ a[4] = b[4] /\ a[2] # b[2] /\ a[3] = b[3]

\* C16: when the constructor raises inside a request, the exception reaches
\* the caller (nothing is returned), the constructor was called once, and the
\* cache and the backends constructed so far are as before the request.
C16_FailedStep ==
    (procs' = procs /\ raised' = "RuntimeError") =>
        /\ ret' = NoRet
        /\ attempts' = 1
        /\ global_phonemizers' = global_phonemizers
        /\ nextId' = nextId
        /\ log' = log

C16_InitFailure == [][C16_FailedStep]_vars

\* A request for the unknown language "xx" that raised in a process whose
\* cache holds a requested backend.
C16_Witness ==
    /\ raised = "RuntimeError"
    /\ ret = NoRet
    /\ attempts = 1
    /\ \E p \in procs : Cardinality(DOMAIN global_phonemizers[p]) >= 2
    /\ \A p \in procs : \A key \in DOMAIN global_phonemizers[p] :
           global_phonemizers[p][key].language # "xx"

\* C20: the backend stored at module load under "english_cleaners2" is never
\* returned by a request: the key of every request differs from that key, the
\* backend a request returned is not the module-load backend of any process,
\* and the module-load backend stays in the cache.
C20_ModuleLoadBackendUnused ==
    /\ \A p \in procs :
           /\ "english_cleaners2" \in DOMAIN global_phonemizers[p]
           /\ \A e \in log : e[3] # global_phonemizers[p]["english_cleaners2"].id
    /\ \A e \in log : process_key(e[4], e[1]) # "english_cleaners2"
    /\ ret # NoRet =>
           ret.backend # global_phonemizers[ret.pid]["english_cleaners2"].id

\* The request of english_cleaners2, ("en-us", "english_cleaners2"), returned a
\* backend other than the module-load backend, which is still cached.
C20_Witness ==
    \E e \in log :
        /\ e[2] = "en-us"
        /\ e[4] = "english_cleaners2"
        /\ "english_cleaners2" \in DOMAIN global_phonemizers[e[1]]
        /\ global_phonemizers[e[1]]["english_cleaners2"].id # e[3]
        /\ global_phonemizers[e[1]][process_key("english_cleaners2", e[1])].id = e[3]

\* The order of the steps C17 states, after "ready".
C17_EnglishOrder ==
    <<"ready", "handle_special_vocals", "convert_to_ascii", "lowercase", "expand_abbreviations",
      "phonemize", "remove_brackets", "collapse_whitespace",
      "restore_special_symbols_from_placeholders">>
C17_PolishOrder ==
    <<"ready", "handle_special_vocals", "lowercase", "phonemize", "replace_combining_tilde",
      "remove_brackets", "collapse_whitespace", "restore_special_symbols_from_placeholders">>

C17_Step ==
    LET order == IF cleaners = "english_cleaners2" THEN C17_EnglishOrder ELSE C17_PolishOrder
    IN /\ \E k \in 1..(Len(order) - 1) : pc = order[k] /\ pc' = order[k + 1]
       /\ pc' = "phonemize" => ret'.language = LanguageOf(cleaners)
       /\ pc' = "restore_special_symbols_from_placeholders" =>
              out' = IF cleaners = "english_cleaners2"
                     THEN english_cleaners2(BackendOf(1, "en-us", cleaners), text)
                     ELSE polish_cleaners(BackendOf(1, "pl", cleaners), text)

\* C17: english_cleaners2 runs handle_special_vocals, convert_to_ascii,
\* lowercase, expand_abbreviations, phonemize (en-us), remove_brackets,
\* collapse_whitespace, restore_special_symbols_from_placeholders, and
\* polish_cleaners runs handle_special_vocals, lowercase, phonemize (pl), the
\* combining-tilde replacement, remove_brackets, collapse_whitespace,
\* restore_special_symbols_from_placeholders, each in this order and each on the
\* result of the step before it; the last step yields the pipeline's result.
C17_StepOrder == [][C17_Step]_vars

\* english_cleaners2 at its end on a text with <UM>, whose output symbol is in
\* the result.
C17_Witness ==
    /\ pc = "restore_special_symbols_from_placeholders"
    /\ cleaners = "english_cleaners2"
    /\ Contains(text, Tag(2))
    /\ Contains(out, OutputSymbol(2))
    /\ ret.language = "en-us"

\* C18: with the rows of placeholder_map visited in any other order,
\* handle_special_vocals returns the text it returns with the order of the
\* source.
C18_TableOrderIndependent ==
    pc = "handle_special_vocals_in_order" => out = handle_special_vocals(text)

\* A text with the tags <UH>, <UM> and <LAUGH> handled with <LAUGH> visited
\* first and <UH> last of the three.
C18_Witness ==
    /\ pc = "handle_special_vocals_in_order"
    /\ table_order[1] = 3
    /\ table_order[3] = 1
    /\ Contains(text, Tag(1))
    /\ Contains(text, Tag(2))
    /\ Contains(text, Tag(3))
    /\ Contains(out, Placeholder(1))
    /\ Contains(out, Placeholder(3))

\* C19: no step removes the temporary directory of a backend whose owning
\* process is running before and after the step; only directories of
\* processes that have ended are removed.
C19_LiveDirsStep ==
    \A d \in tmp_dirs : (d.owner \in procs /\ d.owner \in procs') => d \in tmp_dirs'

C19_SweepRemovesOnlyStale == [][C19_LiveDirsStep]_vars
====
